---- MODULE Spec2Model ----
(***************************************************************************)
(* Model of the manimts-backend job engine (src/main.py): the in-memory    *)
(* registry `executions`, the three HTTP handlers start_execution,         *)
(* get_status and get_response, and the background coroutine               *)
(* execute_code_task together with the child process it spawns and the     *)
(* temporary files it creates.                                             *)
(*                                                                         *)
(* The service runs on one asyncio event loop: a coroutine runs without    *)
(* interruption from one `await` that suspends to the next.  Every action  *)
(* of the runner below is one such segment, so every state of the model is *)
(* a state another handler can observe.  The child process and the         *)
(* filesystem are the environment; their steps are actions of their own.   *)
(***************************************************************************)
EXTENDS Integers, Sequences, FiniteSets, TLC

(* ------------------------------ bounds -------------------------------- *)

\* Number of execution ids uuid4 can hand out in one run of the model.
MaxJobs == 2

(* --------------------------- value universe --------------------------- *)

JobIds == 1 .. MaxJobs

\* Python's None, as a value comparable with every record of the model.
None == [py |-> "None"]

\* Names tempfile can choose for the input file (the random part of tmpXXXX.py).
Names == {"tmpa", "tmpb"}

\* Request bodies submitted to POST /execute (byte strings): empty, ASCII
\* followed by a two-byte UTF-8 sequence, and a byte that is not UTF-8.
PayloadSamples == {<< >>, <<99, 195, 169>>, <<255>>}

\* What a child that exits by itself leaves behind: its exit code and the
\* bytes it wrote to its stdout and stderr pipes.
ChildOutcomes ==
    { [returncode |-> 0, stdout |-> <<195, 169>>, stderr |-> << >>],
      [returncode |-> 1, stdout |-> << >>, stderr |-> <<111>>],
      [returncode |-> 0, stdout |-> <<255>>, stderr |-> <<195>>] }

\* Exit code asyncio reports for a child killed by SIGTERM (signal 15).
SigtermCode == 0 - 15

(* ------------------------ ExecutionStatus enum ------------------------ *)

RUNNING == "running"
SUCCESS == "success"
ERROR == "error"

(* ----------------------------- bytes.decode --------------------------- *)

IsContinuation(b) == b >= 128 /\ b <= 191

\* Number of bytes of the UTF-8 sequence that starts s, 0 when s does not
\* start with a well-formed sequence (strict decoding, as bytes.decode()).
SequenceLength(s) ==
    LET b == s[1] IN
    IF b <= 127 THEN 1
    ELSE IF b >= 194 /\ b <= 223
        THEN IF Len(s) >= 2 /\ IsContinuation(s[2]) THEN 2 ELSE 0
    ELSE IF b >= 224 /\ b <= 239
        THEN IF /\ Len(s) >= 3
                /\ IsContinuation(s[2])
                /\ IsContinuation(s[3])
                /\ (b = 224 => s[2] >= 160)
                /\ (b = 237 => s[2] <= 159)
             THEN 3 ELSE 0
    ELSE IF b >= 240 /\ b <= 244
        THEN IF /\ Len(s) >= 4
                /\ IsContinuation(s[2])
                /\ IsContinuation(s[3])
                /\ IsContinuation(s[4])
                /\ (b = 240 => s[2] >= 144)
                /\ (b = 244 => s[2] <= 143)
             THEN 4 ELSE 0
    ELSE 0

\* The code point encoded by the first n bytes of s.
CodePoint(s, n) ==
    IF n = 1 THEN s[1]
    ELSE IF n = 2 THEN (s[1] - 192) * 64 + (s[2] - 128)
    ELSE IF n = 3 THEN (s[1] - 224) * 4096 + (s[2] - 128) * 64 + (s[3] - 128)
    ELSE (s[1] - 240) * 262144 + (s[2] - 128) * 4096
         + (s[3] - 128) * 64 + (s[4] - 128)

RECURSIVE Decode(_)
\* bytes.decode(): [ok |-> TRUE, text |-> code points], or ok = FALSE where
\* Python raises UnicodeDecodeError.
Decode(s) ==
    IF s = << >> THEN [ok |-> TRUE, text |-> << >>]
    ELSE LET n == SequenceLength(s) IN
         IF n = 0 THEN [ok |-> FALSE, text |-> << >>]
         ELSE LET rest == Decode(SubSeq(s, n + 1, Len(s))) IN
              IF rest.ok
              THEN [ok |-> TRUE, text |-> <<CodePoint(s, n)>> \o rest.text]
              ELSE rest

(* ----------------------------- exceptions ----------------------------- *)

ExcCreate == [type |-> "OSError", desc |-> "No usable temporary file name found"]
ExcWrite == [type |-> "OSError", desc |-> "No space left on device"]
ExcSpawn == [type |-> "FileNotFoundError", desc |-> "No such file or directory: 'manim'"]
ExcDecode == [type |-> "UnicodeDecodeError", desc |-> "'utf-8' codec can't decode byte"]
ExcUnlink == [type |-> "FileNotFoundError", desc |-> "No such file or directory: temp_path"]

\* The classes `except Exception` catches, among those raised here.
ExceptionClasses == {"OSError", "FileNotFoundError", "UnicodeDecodeError"}

\* A handler that catches OSError and its subclasses only.
Catches_OSErrorOnly(e) == e.type \in {"OSError", "FileNotFoundError"}

\* `except Exception as e` (line 137).
Catches(e) == e.type \in ExceptionClasses

\* str(e)
Str(e) == [text |-> e.desc]

TimeoutMessage == [text |-> "Execution timed out after 300 seconds"]

(* ------------------------------- state -------------------------------- *)

VARIABLES
    executions,  \* the registry: execution id -> [status, result, error_message]
    task,        \* per id: where its execute_code_task coroutine stands
    temp_path,   \* per id: the runner's local temp_path (Unbound until assigned)
    process,     \* per id: the child process of the runner
    disk,        \* the temp directory: name of each existing file -> id of its creator
    issued,      \* the names tempfile has handed out so far
    response,    \* what POST /execute returned, when it was the last step
    writes       \* per id: the values assigned to executions[id]["status"], in order

vars == <<executions, task, temp_path, process, disk, issued, response, writes>>

\* state: "none" (no child), "running", "exited" (reaped, returncode set).
\* sigterm: "none", "pending" (sent, the child will die of it), "ignored"
\* (sent to a child that handles or ignores SIGTERM).
\* exit: None until the child has exited, then its exit code and the bytes
\* it wrote to its pipes.
NoProcess == [state |-> "none", sigterm |-> "none", exit |-> None]

NoResponse == [op |-> "none"]

\* A local variable of the coroutine that has not been assigned yet.
Unbound == "unbound"

Init ==
    /\ executions = << >>
    /\ task = [j \in JobIds |-> "unborn"]
    /\ temp_path = [j \in JobIds |-> Unbound]
    /\ process = [j \in JobIds |-> NoProcess]
    /\ disk = << >>
    /\ issued = {}
    /\ response = NoResponse
    /\ writes = [j \in JobIds |-> << >>]

(* ------------------------- registry and files ------------------------- *)

Exists(id) == id \in DOMAIN executions

\* The entry start_execution stores (lines 148-152).
NewExecution == [status |-> RUNNING, result |-> None, error_message |-> None]

\* Lines 124-125: the two assignments follow each other without an await.
SetSuccess(rec, result) == [rec EXCEPT !.status = SUCCESS, !.result = result]

\* A timeout handler that has stored the status but not yet the message.
SetTimeout_StatusOnly(rec) == [rec EXCEPT !.status = ERROR]

\* Lines 130-131: the two assignments follow each other without an await.
SetTimeout(rec) == [rec EXCEPT !.status = ERROR, !.error_message = TimeoutMessage]

\* Lines 138-139.
SetError(rec, e) == [rec EXCEPT !.status = ERROR, !.error_message = Str(e)]

\* Line 116 and line 122: the artifact locator derived from base_name.
VideoUrl(base_name) ==
    [url |-> <<"http://manimts-backend.onrender.com/media", "videos", base_name,
               "1080p60", "MainScene.mp4">>]

\* Lines 118-123.
MakeResult(out, err, returncode, base_name) ==
    [stdout |-> out, stderr |-> err, return_code |-> returncode,
     video_url |-> VideoUrl(base_name)]

\* A fixed set of file names, used whether or not a file has the name.
FreeNames_AnyName(d) == Names

\* The names tempfile may pick.  It draws eight random characters and creates
\* the file with O_EXCL: a name is never the name of an existing file, and
\* (as with uuid4) the same random name is not drawn a second time.
FreeNames(d) == Names \ (DOMAIN d \cup issued)

CreateFile(d, n, id) == (n :> id) @@ d

RemoveFile(d, n) == [m \in DOMAIN d \ {n} |-> d[m]]

\* os.unlink(path): removes the file, raises FileNotFoundError if it is gone.
Unlink(d, path) ==
    IF path \in DOMAIN d
    THEN [raised |-> None, disk |-> RemoveFile(d, path)]
    ELSE [raised |-> ExcUnlink, disk |-> d]

\* The input file job id materialized is still in the temp directory.
InputOnDisk(id) == \E n \in DOMAIN disk : disk[n] = id

(* ------------------- execute_code_task: the handlers ------------------- *)

\* Lines 137-139: what the coroutine ends with when exception exc (or None)
\* reaches the outer try.  A caught exception overwrites the entry; one that
\* is not caught leaves the coroutine.
OuterExcept(d, rec, log, exc) ==
    IF exc = None
    THEN [rec |-> rec, log |-> log, task |-> "returned", disk |-> d]
    ELSE IF Catches(exc)
    THEN [rec |-> SetError(rec, exc), log |-> Append(log, ERROR),
          task |-> "returned", disk |-> d]
    ELSE [rec |-> rec, log |-> log, task |-> "raised", disk |-> d]

\* Lines 133-139: the finally clause unlinks temp_path; an exception of the
\* unlink replaces the one in flight; then the outer handler runs.
Finally(d, path, rec, log, exc) ==
    LET u == Unlink(d, path)
        pending == IF u.raised # None THEN u.raised ELSE exc
    IN  OuterExcept(u.disk, rec, log, pending)

\* A runner whose entry is one dict shared by all the jobs.
Finish_SharedEntry(id, end) ==
    /\ executions' = [k \in DOMAIN executions |-> end.rec]
    /\ writes' = [writes EXCEPT ![id] = end.log]
    /\ task' = [task EXCEPT ![id] = end.task]
    /\ disk' = end.disk
    /\ temp_path' = [temp_path EXCEPT ![id] = Unbound]
    /\ process' = [process EXCEPT ![id] =
                      IF process[id].state = "running" THEN process[id] ELSE NoProcess]
    /\ response' = NoResponse

\* A runner that drops the entry of its job when it is done with it.
Finish_DropsEntry(id, end) ==
    /\ executions' = [k \in DOMAIN executions \ {id} |-> executions[k]]
    /\ writes' = [writes EXCEPT ![id] = end.log]
    /\ task' = [task EXCEPT ![id] = end.task]
    /\ disk' = end.disk
    /\ temp_path' = [temp_path EXCEPT ![id] = Unbound]
    /\ process' = [process EXCEPT ![id] =
                      IF process[id].state = "running" THEN process[id] ELSE NoProcess]
    /\ response' = NoResponse

\* The coroutine of job id ends with outcome `end`: the entry and the file
\* system are as its last segment left them, and its locals (temp_path, and
\* the Process object of a child that has exited) are gone with its frame.
Finish(id, end) ==
    /\ executions' = [executions EXCEPT ![id] = end.rec]
    /\ writes' = [writes EXCEPT ![id] = end.log]
    /\ task' = [task EXCEPT ![id] = end.task]
    /\ disk' = end.disk
    /\ temp_path' = [temp_path EXCEPT ![id] = Unbound]
    /\ process' = [process EXCEPT ![id] =
                      IF process[id].state = "running" THEN process[id] ELSE NoProcess]
    /\ response' = NoResponse

(* --------------------------- start_execution --------------------------- *)

\* uuid4(): an id no earlier call returned.
Uuid4 == JobIds \ DOMAIN executions

\* A handler that runs the coroutine's first segment before it returns.
CreateTask_Inline(id) == [task EXCEPT ![id] = "spawning"]

\* Line 155: create_task only queues the coroutine; it first runs when the
\* handler has returned and the event loop picks it.
CreateTask(id) == [task EXCEPT ![id] = "scheduled"]

\* POST /execute (lines 141-157).  The body is decoded before anything is
\* registered; a body that is not UTF-8 raises out of the handler (HTTP 500).
start_execution(payload) ==
    LET code == Decode(payload) IN
    IF ~code.ok
    THEN /\ response' = [op |-> "execute", code |-> 500]
         /\ UNCHANGED <<executions, task, temp_path, process, disk, issued, writes>>
    ELSE \E id \in Uuid4 :
            /\ executions' = (id :> NewExecution) @@ executions
            /\ writes' = [writes EXCEPT ![id] = <<RUNNING>>]
            /\ task' = CreateTask(id)
            /\ response' = [op |-> "execute", code |-> 200, execution_id |-> id]
            /\ UNCHANGED <<temp_path, process, disk, issued>>

(* ------------------- execute_code_task: the segments ------------------- *)

\* Lines 93-111, up to the first await.  The file is created under a free
\* name, the code is written into it, and the spawn is requested.  Creating
\* or writing can fail; delete=False keeps a file whose write failed.
RunStart(id) ==
    /\ task[id] = "scheduled"
    /\ \E how \in {"create_fails", "write_fails", "ok"} :
        IF how = "create_fails" \/ FreeNames(disk) = {}
        THEN /\ Finish(id, OuterExcept(disk, executions[id], writes[id], ExcCreate))
             /\ UNCHANGED issued
        ELSE \E n \in FreeNames(disk) :
            /\ issued' = issued \cup {n}
            /\ IF how = "write_fails"
               THEN Finish(id, OuterExcept(CreateFile(disk, n, id), executions[id],
                                           writes[id], ExcWrite))
               ELSE
                 /\ disk' = CreateFile(disk, n, id)
                 /\ temp_path' = [temp_path EXCEPT ![id] = n]
                 /\ task' = [task EXCEPT ![id] = "spawning"]
                 /\ response' = NoResponse
                 /\ UNCHANGED <<executions, writes, process>>

\* Lines 107-111 resumed: create_subprocess_exec returns the child or raises.
SpawnReturn(id) ==
    /\ task[id] = "spawning"
    /\ \/ /\ process' = [process EXCEPT ![id] = [NoProcess EXCEPT !.state = "running"]]
          /\ task' = [task EXCEPT ![id] = "communicating"]
          /\ response' = NoResponse
          /\ UNCHANGED <<executions, writes, temp_path, disk>>
       \/ Finish(id, Finally(disk, temp_path[id], executions[id], writes[id], ExcSpawn))
    /\ UNCHANGED issued

(* -------------------------- the child process -------------------------- *)

\* A timeout handler that terminates without looking at returncode.
ReturncodeIsNone_Unchecked(id) == process[id].state \in {"running", "exited"}

\* A timeout handler that never terminates the child.
ReturncodeIsNone_Never(id) == process[id].state = "none"

\* process.returncode is None (line 127): the child has not been reaped.
ReturncodeIsNone(id) == process[id].state = "running"

\* communicate() (line 114) completes when the child has closed its pipes and
\* has been reaped.
CommunicateDone(id) == process[id].state = "exited"

\* A runner that goes on without awaiting the child it terminated.
WaitDone_NotAwaited(id) == process[id].state \in {"running", "exited"}

\* `await process.wait()` (line 129) completes when the child has exited.
WaitDone(id) == process[id].state = "exited"

\* The child exits by itself, with any exit code and any output.  Output of
\* a child whose communicate() was cancelled by the deadline is read by nobody.
ChildExit(id) ==
    /\ process[id].state = "running"
    /\ \E o \in ChildOutcomes :
        process' = [process EXCEPT
                       ![id].state = "exited",
                       ![id].exit = IF task[id] = "communicating" THEN o
                                    ELSE [o EXCEPT !.stdout = << >>, !.stderr = << >>]]
    /\ response' = NoResponse
    /\ UNCHANGED <<executions, task, temp_path, disk, issued, writes>>

\* A child that was sent SIGTERM and does not handle or ignore it dies of it.
ChildTerminated(id) ==
    /\ process[id].state = "running"
    /\ process[id].sigterm = "pending"
    /\ process' = [process EXCEPT
                       ![id].state = "exited",
                       ![id].exit = [returncode |-> SigtermCode,
                                     stdout |-> << >>, stderr |-> << >>]]
    /\ response' = NoResponse
    /\ UNCHANGED <<executions, task, temp_path, disk, issued, writes>>

\* The payload is arbitrary code run by the renderer: it can delete the
\* file it was loaded from while it runs.
ChildRemovesInput(id) ==
    /\ process[id].state = "running"
    /\ task[id] \in {"communicating", "waiting"}
    /\ temp_path[id] \in DOMAIN disk
    /\ disk' = RemoveFile(disk, temp_path[id])
    /\ response' = NoResponse
    /\ UNCHANGED <<executions, task, temp_path, process, issued, writes>>

(* --------------- execute_code_task: the segments, continued ------------ *)

\* process.terminate() (line 128): SIGTERM is sent; whether the child dies of
\* it is the child's choice (Python code can install a handler for it).
Terminate(p, ignored) == [p EXCEPT !.sigterm = IF ignored THEN "ignored" ELSE "pending"]

\* Lines 114-125 and 133-139: communicate() returned before the deadline.
\* Both streams are decoded, the result is stored with status SUCCESS, and
\* the finally clause removes the input file.
CommunicateReturn(id) ==
    /\ task[id] = "communicating"
    /\ CommunicateDone(id)
    /\ LET out == Decode(process[id].exit.stdout)
           err == Decode(process[id].exit.stderr)
       IN  IF out.ok /\ err.ok
           THEN Finish(id, Finally(disk, temp_path[id],
                                   SetSuccess(executions[id],
                                              MakeResult(out.text, err.text,
                                                         process[id].exit.returncode,
                                                         temp_path[id])),
                                   Append(writes[id], SUCCESS), None))
           ELSE Finish(id, Finally(disk, temp_path[id], executions[id], writes[id],
                                   ExcDecode))
    /\ UNCHANGED issued

\* Lines 126-131 and 133-139, when the deadline passes first.  wait_for
\* cancels communicate() and raises TimeoutError.  A child that is still
\* running is sent SIGTERM and awaited; one that has exited already is not.
TimeoutFires(id) ==
    /\ task[id] = "communicating"
    /\ IF ReturncodeIsNone(id)
       THEN /\ \E ignored \in BOOLEAN :
                process' = [process EXCEPT ![id] = Terminate(process[id], ignored)]
            /\ task' = [task EXCEPT ![id] = "waiting"]
            /\ response' = NoResponse
            /\ UNCHANGED <<executions, writes, disk, temp_path>>
       ELSE Finish(id, Finally(disk, temp_path[id], SetTimeout(executions[id]),
                               Append(writes[id], ERROR), None))
    /\ UNCHANGED issued

\* Lines 129-131 and 133-139: process.wait() returned after terminate().
WaitReturn(id) ==
    /\ task[id] = "waiting"
    /\ WaitDone(id)
    /\ Finish(id, Finally(disk, temp_path[id], SetTimeout(executions[id]),
                          Append(writes[id], ERROR), None))
    /\ UNCHANGED issued

(* ---------------------- get_status and get_response -------------------- *)

\* A handler that answers an unknown id like a job that is not finished.
NotFound_AsBadRequest(op, id) ==
    [op |-> op, id |-> id, code |-> 400, detail |-> "Execution not found"]

\* HTTPException(status_code=404, detail="Execution not found")
NotFound(op, id) ==
    [op |-> op, id |-> id, code |-> 404, detail |-> "Execution not found"]

\* A view that shows the video of every entry that holds a result.
StatusResponse_AnyResult(execution) ==
    [status |-> execution.status,
     error_message |-> execution.error_message,
     video_url |-> IF execution.result # None
                   THEN execution.result.video_url
                   ELSE None]

\* StatusResponse(...) of lines 164-173.
StatusResponse(execution) ==
    [status |-> execution.status,
     error_message |-> execution.error_message,
     video_url |-> IF execution.status = SUCCESS /\ execution.result # None
                   THEN execution.result.video_url
                   ELSE None]

\* A projection that reports every render as exited with code 0.
ResultResponse_ZeroCode(result) == [result EXCEPT !.return_code = 0]

\* ResultResponse(**execution["result"]) of line 187.
ResultResponse(result) ==
    [stdout |-> result.stdout, stderr |-> result.stderr,
     return_code |-> result.return_code, video_url |-> result.video_url]

\* GET /status/{execution_id} (lines 159-173): what the call returns.  The
\* handler has no await and assigns nothing: it is a function of the registry.
get_status(id) ==
    IF ~Exists(id) THEN NotFound("status", id)
    ELSE [op |-> "status", id |-> id, code |-> 200,
          body |-> StatusResponse(executions[id])]

\* A refusal whose message always names the status a job starts with.
InvalidState_InitialStatus(id, status) ==
    [op |-> "response", id |-> id, code |-> 400,
     detail |-> <<"Execution is not completed successfully. Current status: ", RUNNING>>]

\* HTTPException(status_code=400, ...) of lines 182-185.  The f-string puts
\* the entry's current status into the message.
InvalidState(id, status) ==
    [op |-> "response", id |-> id, code |-> 400,
     detail |-> <<"Execution is not completed successfully. Current status: ", status>>]

\* GET /response/{execution_id} (lines 175-187): what the call returns.
get_response(id) ==
    IF ~Exists(id) THEN NotFound("response", id)
    ELSE IF executions[id].status # SUCCESS
    THEN InvalidState(id, executions[id].status)
    ELSE [op |-> "response", id |-> id, code |-> 200,
          body |-> ResultResponse(executions[id].result)]

\* A client polls: the two read handlers run and change nothing.
StatusCall(id) ==
    /\ get_status(id).code \in {200, 404}
    /\ UNCHANGED vars

ResponseCall(id) ==
    /\ get_response(id).code \in {200, 400, 404}
    /\ UNCHANGED vars

(* ---------------------------- specification ---------------------------- *)

\* One step of the coroutine of job id.
Runner(id) ==
    \/ RunStart(id)
    \/ SpawnReturn(id)
    \/ CommunicateReturn(id)
    \/ TimeoutFires(id)
    \/ WaitReturn(id)

Next ==
    \/ \E payload \in PayloadSamples : start_execution(payload)
    \/ \E id \in JobIds : StatusCall(id)
    \/ \E id \in JobIds : ResponseCall(id)
    \/ \E id \in JobIds : Runner(id)
    \/ \E id \in JobIds : ChildExit(id)
    \/ \E id \in JobIds : ChildTerminated(id)
    \/ \E id \in JobIds : ChildRemovesInput(id)

Spec == Init /\ [][Next]_vars

\* The event loop runs every coroutine that can continue, the deadline timer
\* fires, and a child that does not ignore SIGTERM dies of it.  Nothing makes
\* a child exit by itself, nor a child that ignores SIGTERM exit.
FairSpec ==
    /\ Spec
    /\ \A id \in JobIds : WF_vars(Runner(id))
    /\ \A id \in JobIds : WF_vars(ChildTerminated(id))

(* ------------------------------- claims -------------------------------- *)

Terminal(id) == Exists(id) /\ executions[id].status # RUNNING

\* Number of places in a status log where the value written differs from
\* the one written before it.
Changes(log) == Cardinality({i \in 1 .. Len(log) - 1 : log[i + 1] # log[i]})

\* C1: on every exit path of the runner the status of a job changes at most
\* once, from running to success or to error, and no later assignment
\* changes a terminal status.
C1_StatusChangesAtMostOnce ==
    \A id \in DOMAIN executions :
        /\ Changes(writes[id]) <= 1
        /\ \A i \in 1 .. Len(writes[id]) - 1 :
               writes[id][i] # RUNNING => writes[id][i + 1] = writes[id][i]

\* C2: in every state of the registry a job has a result iff its status is
\* success and an error_message iff its status is error, never both.
C2_ResultIffSuccess ==
    \A id \in DOMAIN executions :
        /\ executions[id].result # None <=> executions[id].status = SUCCESS
        /\ executions[id].error_message # None <=> executions[id].status = ERROR
        /\ ~(executions[id].result # None /\ executions[id].error_message # None)

\* C3: under fair scheduling every submitted job eventually leaves running,
\* whatever its child does, a child that does not exit on SIGTERM included.
C3_EveryJobTerminates ==
    \A id \in JobIds :
        (Exists(id) /\ executions[id].status = RUNNING) ~> Terminal(id)

\* C4: whenever a job is terminal, the input file materialized for it is no
\* longer on disk, whichever path resolved the job.
C4_NoInputFileAfterTerminal ==
    \A id \in DOMAIN executions : Terminal(id) => ~InputOnDisk(id)

\* C5: once a job is observed with status success, every later result call
\* succeeds and returns the result recorded at completion, unchanged by any
\* step in between.
C5_ResultStableAfterSuccess ==
    [][\A id \in DOMAIN executions :
          executions[id].status = SUCCESS =>
              /\ get_response(id).code = 200
              /\ get_response(id).body = executions[id].result
              /\ get_response(id)' = get_response(id)]_vars

C5_Witness ==
    \E id \in DOMAIN executions :
        /\ task[id] = "returned"
        /\ get_response(id).code = 200
        /\ get_response(id).body.return_code = 1
        /\ get_response(id).body.stderr = <<111>>

\* C6: the timeout message is written only in a step that starts with the
\* child exited (after SIGTERM was sent, when the runner had to wait), so a
\* job that is error with the timeout message has no running child.
C6_TimeoutOnlyAfterChildExit ==
    /\ [](\A id \in DOMAIN executions :
              executions[id].error_message = TimeoutMessage =>
                  /\ executions[id].status = ERROR
                  /\ process[id].state # "running")
    /\ [][\A id \in DOMAIN executions :
              (/\ executions[id].error_message # TimeoutMessage
               /\ executions'[id].error_message = TimeoutMessage) =>
                  /\ process[id].state = "exited"
                  /\ task[id] = "waiting" => process[id].sigterm # "none"]_vars

C6_Witness ==
    \E id \in DOMAIN executions :
        /\ executions[id].status = ERROR
        /\ executions[id].error_message = TimeoutMessage
        /\ task[id] = "returned"

\* C7: whenever communicate() returns before the deadline, whatever the exit
\* code and the captured bytes, the job becomes success and its result holds
\* the exit code and the captured streams.
C7_CompletionIsSuccess ==
    [][\A id \in DOMAIN executions :
          CommunicateReturn(id) =>
              /\ executions'[id].status = SUCCESS
              /\ executions'[id].result # None
              /\ executions'[id].result.return_code = process[id].exit.returncode
              /\ executions'[id].result.stdout = Decode(process[id].exit.stdout).text
              /\ executions'[id].result.stderr = Decode(process[id].exit.stderr).text]_vars

\* The descriptions of the failures the runner can meet.
FailureDescriptions == {Str(e) : e \in {ExcCreate, ExcWrite, ExcSpawn, ExcDecode, ExcUnlink}}

\* C8: every failure of the runner other than the timeout ends the job as
\* error with the description of the failure, and no exception leaves the
\* coroutine.
C8_FailuresBecomeError ==
    /\ [](\A id \in JobIds :
              /\ task[id] # "raised"
              /\ task[id] = "returned" => Terminal(id)
              /\ (Exists(id) /\ executions[id].status = ERROR) =>
                     executions[id].error_message \in FailureDescriptions \cup {TimeoutMessage})
    /\ [][\A id \in DOMAIN executions :
              /\ (task[id] = "scheduled" /\ task'[id] \notin {"scheduled", "spawning"}) =>
                     /\ executions'[id].status = ERROR
                     /\ executions'[id].error_message \in {Str(ExcCreate), Str(ExcWrite)}
              /\ (task[id] = "spawning" /\ task'[id] \notin {"spawning", "communicating"}) =>
                     /\ executions'[id].status = ERROR
                     /\ executions'[id].error_message \in {Str(ExcSpawn), Str(ExcUnlink)}
              /\ (/\ CommunicateReturn(id)
                  /\ ~(/\ Decode(process[id].exit.stdout).ok
                       /\ Decode(process[id].exit.stderr).ok)) =>
                     /\ executions'[id].status = ERROR
                     /\ executions'[id].error_message \in {Str(ExcDecode), Str(ExcUnlink)}
              /\ (/\ task[id] \in {"spawning", "communicating", "waiting"}
                  /\ task'[id] # task[id]
                  /\ task'[id] \notin {"communicating", "waiting"}
                  /\ temp_path[id] \notin DOMAIN disk) =>
                     /\ executions'[id].status = ERROR
                     /\ executions'[id].error_message = Str(ExcUnlink)]_vars

C8_Witness ==
    /\ \E id \in DOMAIN executions :
           /\ task[id] = "returned"
           /\ executions[id].error_message = Str(ExcDecode)
    /\ \E id \in DOMAIN executions :
           /\ task[id] = "returned"
           /\ executions[id].error_message = Str(ExcSpawn)

\* C9: when start_execution returns an id, the job is registered as running
\* with neither result nor error_message and its coroutine has not run yet;
\* a status call made before the coroutine's first step reports running.
C9_SubmitReturnsRunningJob ==
    /\ (response.op = "execute" /\ response.code = 200) =>
           /\ Exists(response.execution_id)
           /\ task[response.execution_id] = "scheduled"
    /\ \A id \in JobIds :
           task[id] = "scheduled" =>
               /\ Exists(id)
               /\ executions[id].status = RUNNING
               /\ executions[id].result = None
               /\ executions[id].error_message = None
               /\ get_status(id).code = 200
               /\ get_status(id).body.status = RUNNING

C9_Witness ==
    /\ response.op = "execute"
    /\ response.code = 200
    /\ get_status(response.execution_id).body.status = RUNNING
    /\ \E id \in DOMAIN executions : Terminal(id)

\* C10: start_execution accepts every payload, bytes that are not valid text
\* included: each call registers one new running job and returns its id.
C10_SubmitAcceptsEveryPayload ==
    response.op = "execute" =>
        /\ response.code = 200
        /\ Exists(response.execution_id)
        /\ executions[response.execution_id].status = RUNNING

\* C11: for a registered job, get_response succeeds exactly when the status is
\* SUCCESS, and then returns the stored result; while the status is RUNNING or
\* ERROR it is refused with 400 and a message that names the current status;
\* the call leaves the registry as it was.
C11_ResultOnlyOnSuccess ==
    /\ [](\A id \in DOMAIN executions :
            LET r == get_response(id)
                status == executions[id].status
            IN  /\ r.code = 200 <=> status = SUCCESS
                /\ status = SUCCESS =>
                      /\ executions[id].result # None
                      /\ r.body.video_url = executions[id].result.video_url
                      /\ r.body.stdout = executions[id].result.stdout
                /\ status \in {RUNNING, ERROR} =>
                      /\ r.code = 400
                      /\ r.detail[2] = status)
    /\ [][\A id \in JobIds : ResponseCall(id) => executions' = executions]_vars

\* One job is refused as ERROR although it holds a result, another as
\* RUNNING, or one is served.
C11_Witness ==
    \E id, other \in DOMAIN executions :
        /\ executions[id].status = ERROR
        /\ get_response(id).code = 400
        /\ get_response(id).detail[2] = ERROR
        /\ executions[other].status = SUCCESS
        /\ get_response(other).code = 200

\* C12: an id start_execution has not returned is answered 404 by get_status
\* and by get_response, whatever the other jobs are doing, and neither call
\* registers it or changes an entry.
C12_UnknownIdIsNotFound ==
    /\ [](\A id \in JobIds \ DOMAIN executions :
            /\ get_status(id).code = 404
            /\ get_response(id).code = 404
            /\ get_status(id).detail = "Execution not found"
            /\ get_response(id).detail = "Execution not found")
    /\ [][\A id \in JobIds \ DOMAIN executions :
            StatusCall(id) \/ ResponseCall(id) => executions' = executions]_vars

\* An id is still unknown while another job has run to its end.
C12_Witness ==
    \E id \in JobIds \ DOMAIN executions :
        /\ get_status(id).code = 404
        /\ get_response(id).code = 404
        /\ \E other \in DOMAIN executions : executions[other].status # RUNNING

\* C13: for a registered job, get_status shows the stored status; video_url is
\* set exactly when the status is SUCCESS and is then the stored result's
\* video_url; the call leaves the registry as it was.
C13_StatusViewMatchesEntry ==
    /\ [](\A id \in DOMAIN executions :
            LET view == get_status(id)
                entry == executions[id]
            IN  /\ view.code = 200
                /\ view.body.status = entry.status
                /\ view.body.video_url # None <=> entry.status = SUCCESS
                /\ (entry.status = SUCCESS /\ entry.result # None) =>
                      view.body.video_url = entry.result.video_url)
    /\ [][\A id \in JobIds : StatusCall(id) => executions' = executions]_vars

\* A successful job shows its video, and a job that holds a result under
\* status ERROR shows none.
C13_Witness ==
    \E id, other \in DOMAIN executions :
        /\ executions[id].status = SUCCESS
        /\ get_status(id).body.video_url = executions[id].result.video_url
        /\ executions[other].status = ERROR
        /\ executions[other].result # None
        /\ get_status(other).body.video_url = None

\* The runner of job id has its input file name and has not finished.
InProgress(id) == task[id] \in {"spawning", "communicating", "waiting"}

\* C14: every successful start_execution returns an id that is not yet in the
\* registry, and a step of the runner of job j leaves the entry of every
\* other job (status, result, error_message) and the input file of every
\* other job as they were, whether the step succeeds, fails or times out.
C14_RunnersAreIsolated ==
    [][/\ \A payload \in PayloadSamples :
            (start_execution(payload) /\ response'.code = 200) =>
                response'.execution_id \notin DOMAIN executions
       /\ \A j \in JobIds :
            Runner(j) =>
                /\ \A k \in DOMAIN executions \ {j} :
                      /\ k \in DOMAIN executions'
                      /\ executions'[k] = executions[k]
                /\ \A n \in DOMAIN disk :
                      disk[n] # j => (n \in DOMAIN disk' /\ disk'[n] = disk[n])
      ]_vars

\* The runner of one job has ended in a timeout while another job is in
\* progress, its entry still RUNNING and its input file in place.
C14_Witness ==
    \E j, k \in DOMAIN executions :
        /\ task[j] = "returned"
        /\ executions[j].status = ERROR
        /\ executions[j].error_message = TimeoutMessage
        /\ InProgress(k)
        /\ executions[k].status = RUNNING
        /\ InputOnDisk(k)

\* C15: the registry only grows.  An id that is registered stays registered,
\* get_status keeps answering 200 for it, and its entry is never replaced:
\* it changes only by the writes of its own runner.
C15_RegistryOnlyGrows ==
    [][\A id \in DOMAIN executions :
          /\ id \in DOMAIN executions'
          /\ get_status(id)'.code = 200
          /\ executions'[id] # executions[id] => Runner(id)
      ]_vars

\* Every id is registered, one job finished and a later one still running.
C15_Witness ==
    /\ DOMAIN executions = JobIds
    /\ \E id, other \in JobIds :
          /\ Terminal(id)
          /\ task[id] = "returned"
          /\ executions[other].status = RUNNING
          /\ get_status(id).code = 200

\* C16: SIGTERM is sent to the child of job id only by the timeout handler of
\* job id's runner (the deadline of its communicate() has passed), and only
\* while the child has not exited.  A child whose communicate() returned in
\* time has not been signalled.
C16_TerminateOnlyOnTimeout ==
    [][\A id \in JobIds :
          /\ (process[id].sigterm = "none" /\ process'[id].sigterm # "none") =>
                /\ TimeoutFires(id)
                /\ task[id] = "communicating"
                /\ process[id].state = "running"
          /\ CommunicateReturn(id) => process[id].sigterm = "none"
      ]_vars

\* One child has been sent SIGTERM while another job completed in time.
C16_Witness ==
    \E id, other \in JobIds :
        /\ process[id].sigterm # "none"
        /\ Exists(other)
        /\ executions[other].status = SUCCESS

C18_TerminalWriteIsAtomic ==
    \A id \in DOMAIN executions :
        /\ executions[id].status = SUCCESS =>
              /\ executions[id].result # None
              /\ get_response(id).code = 200
              /\ get_status(id).body.video_url # None
        /\ executions[id].status = ERROR =>
              /\ executions[id].error_message # None
              /\ get_status(id).body.error_message # None

\* A job that timed out and a job that succeeded are both visible while a
\* third party could poll them.
C18_Witness ==
    \E id, other \in DOMAIN executions :
        /\ executions[id].status = ERROR
        /\ get_status(id).body.error_message = TimeoutMessage
        /\ executions[other].status = SUCCESS
        /\ get_response(other).body.video_url = executions[other].result.video_url

\* C19: no runner step removes the input file of a job whose child is still
\* running.  The runner of job j removes only the file of job j, and only
\* when the child of j has exited or was never spawned.
C19_InputOutlivesChild ==
    [][\A j \in JobIds :
          Runner(j) =>
              \A n \in DOMAIN disk \ DOMAIN disk' :
                  /\ disk[n] = j
                  /\ process[j].state \in {"none", "exited"}
      ]_vars

\* A job that timed out has had its file removed after its child died, while
\* the child of another job is running with its input file in place.
C19_Witness ==
    \E id, other \in JobIds :
        /\ Exists(id)
        /\ executions[id].error_message = TimeoutMessage
        /\ ~InputOnDisk(id)
        /\ process[other].state = "running"
        /\ InputOnDisk(other)

====
